---- MODULE Spec2Model ----
(***************************************************************************)
(* DocuDepth VS Code extension: the change-tracking and sync engine.       *)
(*                                                                         *)
(*   FileWatcher      src/src/watchers/fileWatcher.ts                      *)
(*   CommandHandlers  src/docs/USER_GUIDE.md, lines 813-1365 (the text of  *)
(*                    commands/index.ts)                                   *)
(*   ApiClient        src/unnamed/part_000                                 *)
(*   StatusBarManager src/unnamed/part_001, lines 649-749                  *)
(*                                                                         *)
(* The extension host is single-threaded: a handler runs to its next       *)
(* await, so every action below is one such run.                           *)
(***************************************************************************)
EXTENDS Naturals, Sequences, FiniteSets

VARIABLES
    \* FileWatcher
    watching,            \* the save/create/delete subscriptions are live
    pendingChanges,      \* Map<string, FileChange>, in insertion order
    debounceTimer,       \* {} = no timer armed, {n} = armed, n ticks left
    \* CommandHandlers
    currentContextMapId, \* string | null
    currentContextMap,   \* ContextMap | null
    syncs,               \* the handleFileChanges calls that are suspended
    inits,               \* the initialize calls that are suspended
    \* StatusBarManager, vscode.window
    state,               \* StatusBarManager.state
    notification,        \* the showErrorMessage call of the last step, if any
    progress,            \* the percentages the onProgress callback of initialize
                         \* was called with in the last step, in order
    \* environment
    hasToken,            \* secrets hold a valid id token
    autoSync,            \* setting docudepth.autoSync
    diskMap,             \* .docudepth/context-map.json
    diskMeta,            \* .docudepth/metadata.json
    remote,              \* the remote's jobs: remote[id] is the status of job id
    revs,                \* how many artifacts the remote has returned
    \* observations of the run (history, read by the properties only)
    idle,                \* ticks since the last recorded event
    recent,              \* per path: kinds of its last two events recorded in
                         \* the accumulation cycle of pendingChanges or, in the
                         \* state a flush leaves, of the batch it flushed
    cbArg,               \* argument of the onChangesCallback call of the last
                         \* step, <<>> if it made none
    lastSkip,            \* why the last event was dropped ("none" if recorded),
                         \* "empty" after a flush that found nothing pending
    \* OAuthUriHandler
    pendingLogin,        \* the login whose resolve, reject and timeout are held,
                         \* or null
    timeouts,            \* the logins whose setTimeout is armed
    logins,              \* the promises startLogin has returned, in order
    uriCalls             \* handleUri calls suspended at a secrets.store

watcherVars == <<watching, pendingChanges, debounceTimer>>
handlerVars == <<currentContextMapId, currentContextMap, syncs, inits>>
uiVars      == <<state, notification, progress>>
envVars     == <<hasToken, autoSync, diskMap, diskMeta, remote, revs>>
obsVars     == <<idle, recent, cbArg, lastSkip>>
oauthVars   == <<pendingLogin, timeouts, logins, uriCalls>>
vars == <<watcherVars, handlerVars, uiVars, envVars, obsVars, oauthVars>>

----------------------------------------------------------------------------
(* Bounds of the model *)

\* docudepth.autoSyncDebounce, in ticks of the model's clock
DebounceTicks == 2
\* docudepth.maxFilesPerBatch as configured in the checked runs
MaxFilesPerBatch == 2
\* handleFileChanges calls suspended at the same time
MaxSyncs == 2
\* initialize calls suspended at the same time
MaxInits == 1
\* jobs the remote accepts
MaxJobs == 2
\* non-terminal answers one poller gets
MaxProcessing == 1
\* artifacts the remote returns
MaxRevs == 2
\* changes of the largest batch a flush hands over
MaxPending == 52

(* Program constants *)

\* 100 * 1024
MaxContentLength == 102400
\* maxAttempts of pollForCompletion
maxAttempts == 900
\* the fallback of maxFilesPerBatch
DefaultMaxFiles == 50

----------------------------------------------------------------------------
(* Strings are sequences of one-character strings. *)

StartsWith(s, pre) ==
    Len(pre) <= Len(s) /\ SubSeq(s, 1, Len(pre)) = pre

EndsWith(s, suf) ==
    Len(suf) <= Len(s) /\ SubSeq(s, Len(s) - Len(suf) + 1, Len(s)) = suf

Includes(s, sub) ==
    \E i \in 1..(Len(s) + 1) :
        i + Len(sub) - 1 <= Len(s) /\ SubSeq(s, i, i + Len(sub) - 1) = sub

\* relativePath.replace(/\\/g, '/')
NormalizePath(s) ==
    [i \in 1..Len(s) |-> IF s[i] = "\\" THEN "/" ELSE s[i]]

ignoredPatterns ==
    << <<"n","o","d","e","_","m","o","d","u","l","e","s">>,
       <<".","g","i","t">>,
       <<".","d","o","c","u","d","e","p","t","h">>,
       <<"d","i","s","t">>,
       <<"b","u","i","l","d">>,
       <<"o","u","t">>,
       <<".","n","e","x","t">>,
       <<".","n","u","x","t">>,
       <<"_","_","p","y","c","a","c","h","e","_","_">>,
       <<".","p","y","t","e","s","t","_","c","a","c","h","e">>,
       <<"v","e","n","v">>,
       <<".","v","e","n","v">>,
       <<"t","a","r","g","e","t">>,
       <<".","i","d","e","a">>,
       <<".","v","s","c","o","d","e">>,
       <<"*",".","l","o","g">>,
       <<"*",".","l","o","c","k">>,
       <<"p","a","c","k","a","g","e","-","l","o","c","k",".","j","s","o","n">>,
       <<"y","a","r","n",".","l","o","c","k">>,
       <<"p","n","p","m","-","l","o","c","k",".","y","a","m","l">>
    >>

\* a test that looks for the pattern anywhere in the path
MatchesPatternSubstring(normalizedPath, pattern) ==
    IF StartsWith(pattern, <<"*">>)
    THEN EndsWith(normalizedPath, Tail(pattern))
    ELSE Includes(normalizedPath, pattern)

\* shouldIgnore without its last test, endsWith('/' + pattern)
MatchesPatternNoLast(normalizedPath, pattern) ==
    IF StartsWith(pattern, <<"*">>)
    THEN EndsWith(normalizedPath, Tail(pattern))
    ELSE \/ StartsWith(normalizedPath, pattern \o <<"/">>)
         \/ normalizedPath = pattern
         \/ Includes(normalizedPath, <<"/">> \o pattern \o <<"/">>)

\* one pattern of the loop in shouldIgnore
MatchesPattern(normalizedPath, pattern) ==
    IF StartsWith(pattern, <<"*">>)
    THEN EndsWith(normalizedPath, Tail(pattern))
    ELSE \/ StartsWith(normalizedPath, pattern \o <<"/">>)
         \/ normalizedPath = pattern
         \/ Includes(normalizedPath, <<"/">> \o pattern \o <<"/">>)
         \/ EndsWith(normalizedPath, <<"/">> \o pattern)

shouldIgnore(relativePath) ==
    \E k \in 1..Len(ignoredPatterns) :
        MatchesPattern(NormalizePath(relativePath), ignoredPatterns[k])

----------------------------------------------------------------------------
(* FileChange and the pending map *)

\* content?: string. A string is modelled by its length, <<n>>; <<>> is undefined.
undefined == <<>>
Text(n) == <<n>>
ContentLength(content) == content[1]

FileChange(path, changeType, content) ==
    [path |-> path, changeType |-> changeType, content |-> content]

MapHas(m, key) == \E i \in 1..Len(m) : m[i].path = key

\* a map that keeps both values of a key
MapSetAppend(m, key, value) == Append(m, value)

\* a map whose first value for a key wins
MapSetKeepFirst(m, key, value) ==
    IF MapHas(m, key) THEN m ELSE Append(m, value)

\* a map that moves a key that is set again to the end
MapSetMoveLast(m, key, value) ==
    Append(SelectSeq(m, LAMBDA e : e.path # key), value)

\* Map.prototype.set: an existing key keeps its place, a new key goes last
MapSet(m, key, value) ==
    IF MapHas(m, key)
    THEN [i \in 1..Len(m) |-> IF m[i].path = key THEN value ELSE m[i]]
    ELSE Append(m, value)

\* a slice that keeps everything
SliceAll(a, n) == a

\* Array.prototype.slice(0, n)
Slice(a, n) == SubSeq(a, 1, IF n < Len(a) THEN n ELSE Len(a))

PathsOf(a) == {a[i].path : i \in 1..Len(a)}

----------------------------------------------------------------------------
(* Values *)

\* currentContextMapId = null; the remote's ids are 1, 2, ...
NoId == 0

\* A ContextMap: the job it was generated for and the revision the remote
\* returned; NoMap is null in memory and a missing file on disk.
ContextMap(job, rev) == [job |-> job, rev |-> rev]
NoMap == ContextMap(NoId, 0)

\* metadata.json: missing or unparsable, or {contextMapId, lastUpdated, version}
NoMeta == [exists |-> FALSE, contextMapId |-> NoId, version |-> 0]
Metadata(id, contextMap) ==
    [exists |-> TRUE, contextMapId |-> id, version |-> contextMap.rev]

\* a suspended handleFileChanges call: where it waits, its live local
\* (changes before the slice, filesToUpdate after it) and the id it sent
SyncFrame(pc, files, target) == [pc |-> pc, files |-> files, target |-> target]

\* a suspended initialize call: where it waits, response.context_map_id, and
\* the loop counter of pollForCompletion
InitFrame(pc, id, i) == [pc |-> pc, id |-> id, i |-> i]

RemoveAt(a, k) == [j \in 1..(Len(a) - 1) |-> IF j < k THEN a[j] ELSE a[j + 1]]
ReplaceAt(a, k, v) == [a EXCEPT ![k] = v]

\* the paths the events of the checked runs are about
\* vscode.window.showErrorMessage(`${prefix}: ${message}`)
Notification(kind, message) == [kind |-> kind, message |-> message]
NoNotification == Notification("none", <<>>)

PathA == <<"a",".","t","s">>
PathB == <<"b",".","t","s">>
PathC == <<"c",".","t","s">>
PathOutline == <<"o","u","t","l","i","n","e",".","t","s">>
PathOutFirst == <<"o","u","t","/","a",".","t","s">>
PathGitMiddle == <<"s","/",".","g","i","t","/","a",".","t","s">>
PathDistLast == <<"s","/","d","i","s","t">>
PathBuildOnly == <<"b","u","i","l","d">>
PathVenvWin == <<"s","\\","v","e","n","v","\\","a",".","p","y">>
PathLog == <<"a",".","l","o","g">>

PathBuilder == <<"b","u","i","l","d","e","r","/","a",".","t","s">>
PathSrcOutline == <<"s","r","c","/","o","u","t","l","i","n","e",".","t","s">>
PathDistribution == <<"d","i","s","t","r","i","b","u","t","i","o","n","/","x",".","t","s">>
PathLogTs == <<"a",".","l","o","g",".","t","s">>
PathSubLock == <<"x","/","a",".","l","o","c","k">>

WatcherPaths == {PathA, PathOutline, PathOutFirst, PathGitMiddle, PathDistLast,
                 PathBuildOnly, PathVenvWin, PathLog}
SyncPaths == {PathA, PathB, PathC}
EnginePaths == {PathA}
SegmentPaths == {PathBuilder, PathSrcOutline, PathDistribution, PathLogTs,
                 PathSubLock, PathOutFirst, PathGitMiddle, PathDistLast,
                 PathVenvWin, PathLog}
Paths == WatcherPaths \cup SyncPaths \cup EnginePaths \cup SegmentPaths

NoRecent == [p \in Paths |-> <<>>]
Last2(s) == IF Len(s) <= 2 THEN s ELSE SubSeq(s, Len(s) - 1, Len(s))
Touched == {p \in Paths : recent[p] # <<>>}

\* a step that reports no progress
NoProgress == progress' = <<>>

\* a step that shows no error message and reports no progress
Silent == notification' = NoNotification /\ NoProgress

\* a step that calls no onChangesCallback: the observation of the last flush
\* is over
Passed ==
    /\ cbArg' = <<>>
    /\ recent' = IF cbArg = <<>> THEN recent ELSE NoRecent

----------------------------------------------------------------------------
(* FileWatcher *)

\* shouldIgnore on the paths of the checked runs, evaluated once
shouldIgnoreTable == [p \in Paths |-> shouldIgnore(p)]

\* a scheduler that leaves an armed timer running
scheduleCallbackNoReset(timer) ==
    IF timer # {} THEN timer ELSE {DebounceTicks}

\* scheduleCallback: clearTimeout of an armed timer, then setTimeout
scheduleCallback(timer) == {DebounceTicks}

\* an event handler that also sets the entry in the batches taken earlier
RecordChangeMerging(change) ==
    /\ pendingChanges' = MapSet(pendingChanges, change.path, change)
    /\ debounceTimer' = scheduleCallback(debounceTimer)
    /\ idle' = 0
    /\ UNCHANGED oauthVars
    /\ recent' = [(IF Len(pendingChanges) = 0 THEN NoRecent ELSE recent)
                      EXCEPT ![change.path] = Last2(Append(@, change.changeType))]
    /\ cbArg' = <<>>
    /\ lastSkip' = "none"
    /\ Silent
    /\ syncs' = [k \in 1..Len(syncs) |->
                    [syncs[k] EXCEPT !.files = MapSet(@, change.path, change)]]
    /\ UNCHANGED <<watching, currentContextMapId, currentContextMap, inits,
                   state, envVars>>

\* pendingChanges.set(...); scheduleCallback(): the common end of the two
\* event handlers
RecordChange(change) ==
    /\ pendingChanges' = MapSet(pendingChanges, change.path, change)
    /\ debounceTimer' = scheduleCallback(debounceTimer)
    /\ idle' = 0
    /\ UNCHANGED oauthVars
    /\ recent' = [(IF Len(pendingChanges) = 0 THEN NoRecent ELSE recent)
                      EXCEPT ![change.path] = Last2(Append(@, change.changeType))]
    /\ cbArg' = <<>>
    /\ lastSkip' = "none"
    /\ Silent
    /\ UNCHANGED <<watching, handlerVars, state, envVars>>

\* a return that comes after scheduleCallback
SkipEventRescheduling(why) ==
    /\ lastSkip' = why
    /\ debounceTimer' = scheduleCallback(debounceTimer)
    /\ Passed
    /\ Silent
    /\ UNCHANGED <<watching, pendingChanges, handlerVars, state, envVars, idle,
                   oauthVars>>

\* a return of an event handler before pendingChanges.set
SkipEvent(why) ==
    /\ lastSkip' = why
    /\ Passed
    /\ Silent
    /\ UNCHANGED <<watcherVars, handlerVars, state, envVars, idle, oauthVars>>

\* a save handler that also skips content of exactly the limit
handleSaveInclusive(underRoot, relativePath, content) ==
    /\ watching
    /\ IF ~underRoot
       THEN SkipEvent("outside")
       ELSE IF shouldIgnoreTable[relativePath]
            THEN SkipEvent("ignored")
            ELSE IF ContentLength(content) >= MaxContentLength
                 THEN SkipEvent("oversize")
                 ELSE RecordChange(FileChange(relativePath, "modified", content))

\* onDidSaveTextDocument; underRoot: fsPath.startsWith(workspaceRoot)
handleSave(underRoot, relativePath, content) ==
    /\ watching
    /\ IF ~underRoot
       THEN SkipEvent("outside")
       ELSE IF shouldIgnoreTable[relativePath]
            THEN SkipEvent("ignored")
            ELSE IF ContentLength(content) > MaxContentLength
                 THEN SkipEvent("oversize")
                 ELSE RecordChange(FileChange(relativePath, "modified", content))

\* a handler whose catch block goes on without content
handleFileSystemChangeNoReturn(relativePath, changeType, readThrows, fileText) ==
    /\ watching
    /\ IF shouldIgnoreTable[relativePath]
       THEN SkipEvent("ignored")
       ELSE IF changeType = "added"
            THEN IF readThrows
                 THEN RecordChange(FileChange(relativePath, "added", undefined))
                 ELSE IF ContentLength(fileText) > MaxContentLength
                      THEN SkipEvent("oversize")
                      ELSE RecordChange(FileChange(relativePath, "added", fileText))
            ELSE RecordChange(FileChange(relativePath, "deleted", undefined))

\* onDidCreate / onDidDelete; readThrows, fileText: what readFileSync does
handleFileSystemChange(relativePath, changeType, readThrows, fileText) ==
    /\ watching
    /\ IF shouldIgnoreTable[relativePath]
       THEN SkipEvent("ignored")
       ELSE IF changeType = "added"
            THEN IF readThrows
                 THEN SkipEvent("unreadable")
                 ELSE IF ContentLength(fileText) > MaxContentLength
                      THEN SkipEvent("oversize")
                      ELSE RecordChange(FileChange(relativePath, "added", fileText))
            ELSE RecordChange(FileChange(relativePath, "deleted", undefined))

\* a callback that does not read docudepth.autoSync
onChangesCallbackNoGate(changes) ==
    IF currentContextMapId = NoId
    THEN syncs
    ELSE Append(syncs, SyncFrame("token", changes, NoId))

\* handleFileChanges up to its first await (getIdToken): the calls suspended
\* after it
onChangesCallback(changes) ==
    IF currentContextMapId = NoId
    THEN syncs
    ELSE IF ~autoSync
         THEN syncs
         ELSE Append(syncs, SyncFrame("token", changes, NoId))

\* a flush without the test of pendingChanges.size
flushChangesNoGuard ==
    /\ pendingChanges' = <<>>
    /\ cbArg' = pendingChanges
    /\ syncs' = Append(syncs, SyncFrame("token", pendingChanges, NoId))
    /\ lastSkip' = IF Len(pendingChanges) = 0 THEN "empty" ELSE lastSkip

flushChanges ==
    IF Len(pendingChanges) = 0
    THEN /\ cbArg' = <<>>
         /\ lastSkip' = "empty"
         /\ UNCHANGED <<pendingChanges, syncs>>
    ELSE /\ pendingChanges' = <<>>
         /\ cbArg' = pendingChanges
         /\ syncs' = onChangesCallback(pendingChanges)
         /\ UNCHANGED lastSkip

\* the debounce timer elapses
TimerFire ==
    /\ debounceTimer = {0}
    /\ debounceTimer' = {}
    /\ flushChanges
    /\ Silent
    /\ UNCHANGED <<watching, currentContextMapId, currentContextMap, inits,
                   state, envVars, idle, oauthVars, recent>>

\* flushChanges called directly: it is a public method of FileWatcher, and
\* such a call leaves the timer as it is
FlushCall ==
    /\ watching
    /\ flushChanges
    /\ Silent
    /\ UNCHANGED <<watching, debounceTimer, currentContextMapId, currentContextMap,
                   inits, state, envVars, idle, oauthVars, recent>>

\* one tick of the clock while a timer is armed
Tick ==
    /\ debounceTimer # {}
    /\ debounceTimer # {0}
    /\ debounceTimer' = {n - 1 : n \in debounceTimer}
    /\ idle' = IF idle < DebounceTicks THEN idle + 1 ELSE idle
    /\ UNCHANGED oauthVars
    /\ Passed
    /\ Silent
    /\ UNCHANGED <<watching, pendingChanges, handlerVars, state, envVars,
                   lastSkip>>

\* a stop that only disposes the subscriptions
stopKeepsTimer ==
    /\ watching' = FALSE
    /\ UNCHANGED <<debounceTimer, pendingChanges>>
    /\ recent' = NoRecent
    /\ cbArg' = <<>>

\* FileWatcher.stop
stop ==
    /\ watching' = FALSE
    /\ debounceTimer' = {}
    /\ pendingChanges' = <<>>
    /\ recent' = NoRecent
    /\ cbArg' = <<>>

SaveEvent(ps, texts) ==
    \E p \in ps, c \in texts : handleSave(TRUE, p, c)

\* a document outside the workspace folder is saved
OutsideSaveEvent == handleSave(FALSE, PathA, Text(10))

CreateEvent(ps, texts) ==
    \E p \in ps, c \in texts : handleFileSystemChange(p, "added", FALSE, c)

\* the created file is gone before it is read
UnreadableCreateEvent(ps) ==
    \E p \in ps : handleFileSystemChange(p, "added", TRUE, undefined)

DeleteEvent(ps) ==
    \E p \in ps : handleFileSystemChange(p, "deleted", FALSE, undefined)

----------------------------------------------------------------------------
(* CommandHandlers *)

\* a rejected request, the body's error text (ApiClient.request)
ErrNotFound ==
    <<"C","o","n","t","e","x","t"," ","m","a","p"," ","n","o","t"," ","f","o","u","n","d">>
ErrUnauthorized ==
    <<"U","n","a","u","t","h","o","r","i","z","e","d">>
\* fetch itself failed (ApiClient.request)
ErrNetwork ==
    <<"N","e","t","w","o","r","k"," ","e","r","r","o","r",":"," ","f","e","t","c","h"," ","f","a","i","l","e","d">>
\* pollForCompletion on status 'failed'
ErrGenerationFailed ==
    <<"G","e","n","e","r","a","t","i","o","n"," ","f","a","i","l","e","d">>
\* pollForCompletion after maxAttempts polls
ErrTimedOut ==
    <<"G","e","n","e","r","a","t","i","o","n"," ","t","i","m","e","d"," ","o","u","t">>

\* a failed ApiClient.request: status 0 when fetch itself rejected (text is
\* fetchError.message), an HTTP status otherwise; json: the body parses as
\* JSON, with its error and message members (empty when absent); text: the
\* body as received
Failure(status, json, error, message, text) ==
    [status |-> status, json |-> json, error |-> error, message |-> message,
     text |-> text]

Digits == <<"0","1","2","3","4","5","6","7","8","9">>

RECURSIVE ToText(_)
\* `${response.status}`
ToText(n) ==
    IF n < 10 THEN <<Digits[n + 1]>>
    ELSE ToText(n \div 10) \o <<Digits[(n % 10) + 1]>>

\* a || b on strings
OrElse(a, b) == IF a # <<>> THEN a ELSE b

\* the message of the Error that ApiClient.request throws
errorMessageOf(f) ==
    IF f.status = 0
    THEN <<"N","e","t","w","o","r","k"," ","e","r","r","o","r",":"," ">> \o OrElse(f.text, <<"f","e","t","c","h"," ","f","a","i","l","e","d">>)
    ELSE IF f.json
         THEN OrElse(f.error, OrElse(f.message, f.text))
         ELSE OrElse(f.text, <<"H","T","T","P"," ">> \o ToText(f.status))

\* the messages a failed updateContextMap call is rejected with
SyncErrors == {ErrNotFound, ErrUnauthorized, ErrNetwork}

\* errorMessage.includes('not found') || errorMessage.includes('Unauthorized')
IsPermanent(errorMessage) ==
    \/ Includes(errorMessage, <<"n","o","t"," ","f","o","u","n","d">>)
    \/ Includes(errorMessage, <<"U","n","a","u","t","h","o","r","i","z","e","d">>)

\* a save that writes the metadata file only
WriteCacheMetaOnly(contextMap, id, written) ==
    /\ diskMap' = diskMap
    /\ diskMeta' = IF written >= 2 THEN Metadata(id, contextMap) ELSE diskMeta

\* saveContextMapLocally up to its first await: of its two writeFileSync
\* calls the first `written` have happened
WriteCache(contextMap, id, written) ==
    /\ diskMap' = IF written >= 1 THEN contextMap ELSE diskMap
    /\ diskMeta' = IF written >= 2 THEN Metadata(id, contextMap) ELSE diskMeta

\* a start that leaves the previous FileWatcher running: its entries and its
\* timer go on beside the new one's
startFileWatcherNoStop ==
    /\ watching' = TRUE
    /\ UNCHANGED <<debounceTimer, pendingChanges>>
    /\ Passed

\* startFileWatcher: stopFileWatcher, then a new FileWatcher is started
startFileWatcher ==
    /\ watching' = TRUE
    /\ debounceTimer' = {}
    /\ pendingChanges' = <<>>
    /\ recent' = NoRecent
    /\ cbArg' = <<>>

stopFileWatcher ==
    IF watching THEN stop ELSE Passed /\ UNCHANGED watcherVars

\* checkExistingContextMap on the two files of .docudepth: the fields it
\* leaves and whether it starts the watcher
checkExistingContextMap(memMap, memId, fileMap, fileMeta) ==
    IF fileMap = NoMap
    THEN [map |-> memMap, id |-> memId, state |-> "needs_init", start |-> FALSE]
    ELSE [map |-> fileMap,
          id |-> IF fileMeta.exists THEN fileMeta.contextMapId ELSE memId,
          state |-> "synced", start |-> TRUE]

\* login; ok: the browser flow ended with a token
Login(ok) ==
    /\ IF ok
       THEN LET r == checkExistingContextMap(currentContextMap, currentContextMapId,
                                             diskMap, diskMeta)
            IN  /\ hasToken' = TRUE
                /\ currentContextMap' = r.map
                /\ currentContextMapId' = r.id
                /\ state' = r.state
                /\ IF r.start THEN startFileWatcher
                              ELSE Passed /\ UNCHANGED watcherVars
                /\ Silent
       ELSE /\ notification' = Notification("login", <<>>)
            /\ NoProgress
            /\ state' = "not_authenticated"
            /\ Passed
            /\ UNCHANGED <<hasToken, currentContextMap, currentContextMapId,
                           watcherVars>>
    /\ UNCHANGED <<syncs, inits, autoSync, diskMap, diskMeta, remote, revs,
                   idle, oauthVars, lastSkip>>

Logout ==
    /\ hasToken' = FALSE
    /\ stopFileWatcher
    /\ currentContextMapId' = NoId
    /\ currentContextMap' = NoMap
    /\ state' = "not_authenticated"
    /\ Silent
    /\ UNCHANGED <<syncs, inits, autoSync, diskMap, diskMeta, remote, revs,
                   idle, oauthVars, lastSkip>>

\* the user flips docudepth.autoSync
ToggleAutoSync ==
    /\ autoSync' = ~autoSync
    /\ Passed
    /\ Silent
    /\ UNCHANGED <<watcherVars, handlerVars, state, hasToken, diskMap, diskMeta,
                   remote, revs, idle, oauthVars, lastSkip>>

\* the extension host dies and the window is opened again: activate, on the
\* files the dead process left
Restart(fileMap, fileMeta) ==
    LET r == checkExistingContextMap(NoMap, NoId, fileMap, fileMeta)
    IN  /\ syncs' = <<>>
        /\ inits' = <<>>
        /\ notification' = NoNotification
        /\ NoProgress
        /\ debounceTimer' = {}
        /\ pendingChanges' = <<>>
        /\ recent' = NoRecent
        /\ cbArg' = <<>>
        /\ IF hasToken
           THEN /\ currentContextMap' = r.map
                /\ currentContextMapId' = r.id
                /\ state' = r.state
                /\ watching' = r.start
           ELSE /\ currentContextMap' = NoMap
                /\ currentContextMapId' = NoId
                /\ state' = "not_authenticated"
                /\ watching' = FALSE

(* the remote *)

\* a generation job ends
JobCompletes(id) ==
    /\ remote[id] = "processing"
    /\ remote' = [remote EXCEPT ![id] = "completed"]
    /\ Passed
    /\ Silent
    /\ UNCHANGED <<watcherVars, handlerVars, state, hasToken, autoSync,
                   diskMap, diskMeta, revs, idle, oauthVars, lastSkip>>

JobFails(id) ==
    /\ remote[id] = "processing"
    /\ remote' = [remote EXCEPT ![id] = "failed"]
    /\ Passed
    /\ Silent
    /\ UNCHANGED <<watcherVars, handlerVars, state, hasToken, autoSync,
                   diskMap, diskMeta, revs, idle, oauthVars, lastSkip>>

\* the remote knows the id and has finished generating its map
Completed(id) == id \in 1..Len(remote) /\ remote[id] = "completed"

\* context_map of a result response: the next revision of a finished map,
\* what there is so far (revision 0) of an unfinished one
ResultOf(id) == ContextMap(id, IF Completed(id) THEN revs + 1 ELSE 0)

(* handleFileChanges after its first await *)

\* config.get<number>('maxFilesPerBatch') || 50; setting 0: unset (or zero)
maxFiles(setting) == IF setting = 0 THEN DefaultMaxFiles ELSE setting

\* getIdToken resolved: return without a token, or slice and send the
\* update; setting: docudepth.maxFilesPerBatch as read by this call
SyncTokenResolved(k, setting) ==
    /\ syncs[k].pc = "token"
    /\ IF ~hasToken
       THEN /\ syncs' = RemoveAt(syncs, k)
            /\ UNCHANGED state
       ELSE /\ syncs' = ReplaceAt(syncs, k,
                            SyncFrame("update",
                                      Slice(syncs[k].files, maxFiles(setting)),
                                      currentContextMapId))
            /\ state' = "changes_pending"
    /\ Passed
    /\ Silent
    /\ UNCHANGED <<watcherVars, currentContextMapId, currentContextMap, inits,
                   envVars, idle, oauthVars, lastSkip>>

\* updateContextMap resolved: response.context_map is taken and
\* saveContextMapLocally runs to its first await
SyncUpdateOk(k) ==
    /\ syncs[k].pc = "update"
    /\ Completed(syncs[k].target)
    /\ LET contextMap == ResultOf(syncs[k].target)
       IN  /\ currentContextMap' = contextMap
           /\ WriteCache(contextMap, currentContextMapId, 2)
    /\ revs' = revs + 1
    /\ syncs' = ReplaceAt(syncs, k, [syncs[k] EXCEPT !.pc = "saved"])
    /\ Passed
    /\ Silent
    /\ UNCHANGED <<watcherVars, currentContextMapId, inits, state, hasToken,
                   autoSync, remote, idle, oauthVars, lastSkip>>

\* the same, but the process dies in saveContextMapLocally after `written`
\* of its writes
SyncUpdateCrash(k, written) ==
    /\ syncs[k].pc = "update"
    /\ Completed(syncs[k].target)
    /\ LET contextMap == ResultOf(syncs[k].target)
       IN  /\ WriteCache(contextMap, currentContextMapId, written)
           /\ Restart(IF written >= 1 THEN contextMap ELSE diskMap,
                      IF written >= 2 THEN Metadata(currentContextMapId, contextMap)
                                      ELSE diskMeta)
    /\ revs' = revs + 1
    /\ UNCHANGED <<hasToken, autoSync, remote, idle, oauthVars, lastSkip>>

\* saveContextMapLocally resolved
SyncSaved(k) ==
    /\ syncs[k].pc = "saved"
    /\ state' = "synced"
    /\ syncs' = RemoveAt(syncs, k)
    /\ Passed
    /\ Silent
    /\ UNCHANGED <<watcherVars, currentContextMapId, currentContextMap, inits,
                   envVars, idle, oauthVars, lastSkip>>

\* a catch block that forgets the job when the remote no longer has it
SyncUpdateFailsForgetting(k, errorMessage) ==
    /\ syncs[k].pc = "update"
    /\ state' = "error"
    /\ notification' = IF IsPermanent(errorMessage)
                       THEN Notification("sync", errorMessage)
                       ELSE NoNotification
    /\ NoProgress
    /\ currentContextMapId' = IF IsPermanent(errorMessage)
                              THEN NoId ELSE currentContextMapId
    /\ syncs' = RemoveAt(syncs, k)
    /\ Passed
    /\ UNCHANGED <<watcherVars, currentContextMap, inits, envVars, idle, oauthVars,
                   lastSkip>>

\* updateContextMap rejected: the catch block
SyncUpdateFails(k, errorMessage) ==
    /\ syncs[k].pc = "update"
    /\ state' = "error"
    /\ notification' = IF IsPermanent(errorMessage)
                       THEN Notification("sync", errorMessage)
                       ELSE NoNotification
    /\ NoProgress
    /\ syncs' = RemoveAt(syncs, k)
    /\ Passed
    /\ UNCHANGED <<watcherVars, currentContextMapId, currentContextMap, inits,
                   envVars, idle, oauthVars, lastSkip>>

(* initialize *)

\* a catch block that shows the same text for every failure
InitCatchGeneric(k, message) ==
    /\ state' = "error"
    /\ notification' = Notification("generation", ErrGenerationFailed)
    /\ inits' = RemoveAt(inits, k)

\* the catch block of initialize
InitCatch(k, message) ==
    /\ state' = "error"
    /\ notification' = Notification("generation", message)
    /\ inits' = RemoveAt(inits, k)

\* initialize up to the analyze request
InitializeStart ==
    /\ IF ~hasToken
       THEN /\ notification' = Notification("login-first", <<>>)
            /\ NoProgress
            /\ state' = "not_authenticated"
            /\ UNCHANGED inits
       ELSE /\ state' = "generating"
            /\ inits' = Append(inits, InitFrame("analyze", NoId, 0))
            /\ Silent
    /\ Passed
    /\ UNCHANGED <<watcherVars, currentContextMapId, currentContextMap, syncs,
                   envVars, idle, oauthVars, lastSkip>>

\* analyzeRepository resolved: the remote has a new job
InitAnalyzeOk(k) ==
    /\ inits[k].pc = "analyze"
    /\ remote' = Append(remote, "processing")
    /\ currentContextMapId' = Len(remote) + 1
    /\ inits' = ReplaceAt(inits, k, InitFrame("poll", Len(remote) + 1, 0))
    /\ Passed
    /\ Silent
    /\ UNCHANGED <<watcherVars, currentContextMap, syncs, state, hasToken,
                   autoSync, diskMap, diskMeta, revs, idle, oauthVars, lastSkip>>

\* analyzeRepository rejected
InitAnalyzeFails(k) ==
    /\ inits[k].pc = "analyze"
    /\ InitCatch(k, ErrNetwork)
    /\ NoProgress
    /\ Passed
    /\ UNCHANGED <<watcherVars, currentContextMapId, currentContextMap, syncs,
                   envVars, idle, oauthVars, lastSkip>>

\* a loop that takes any answer for the end of the job
PollDoneAny(status) == status \in {"completed", "processing"}

\* a loop that does not return on 'completed'
PollDoneNever(status) == FALSE

\* what a failed job reports as its reason
ErrRemote ==
    <<"R","e","p","o","s","i","t","o","r","y"," ","t","o","o"," ","l","a","r","g","e">>

\* status.error_message of a failed job: the first job reports a reason,
\* later ones none
error_message(id) == IF id = 1 THEN ErrRemote ELSE <<>>

\* status.status === 'completed'
PollDone(status) == status = "completed"

\* the loop condition i < maxAttempts fails after iteration i
LoopEnds(i) == i + 1 >= maxAttempts

\* progress_percentage of a status response
progress_percentage(status) == IF status = "completed" THEN 100 ELSE 50

\* a loop that reports only while the job goes on
onProgressWhileRunning(status) ==
    IF status = "processing" THEN <<progress_percentage(status)>> ELSE <<>>

\* the onProgress calls of one iteration whose getStatus call returned
onProgress(status) == <<progress_percentage(status)>>

\* one iteration of the loop of pollForCompletion; throws: getStatus rejected
InitPoll(k, throws) ==
    /\ inits[k].pc = "poll"
    /\ inits[k].i < maxAttempts
    /\ LET status == remote[inits[k].id]
       IN  IF throws
           THEN InitCatch(k, ErrNetwork) /\ NoProgress
           ELSE /\ progress' = onProgress(status)
                /\ IF PollDone(status)
                   THEN /\ state' = "generating"
                        /\ inits' = ReplaceAt(inits, k,
                                       [inits[k] EXCEPT !.pc = "result"])
                        /\ notification' = NoNotification
                   ELSE IF status = "failed"
                        THEN InitCatch(k, OrElse(error_message(inits[k].id),
                                                 ErrGenerationFailed))
                        ELSE IF LoopEnds(inits[k].i)
                             THEN InitCatch(k, ErrTimedOut)
                             ELSE /\ state' = "generating"
                                  /\ inits' = ReplaceAt(inits, k,
                                                 [inits[k] EXCEPT !.i = @ + 1])
                                  /\ notification' = NoNotification
    /\ Passed
    /\ UNCHANGED <<watcherVars, currentContextMapId, currentContextMap, syncs,
                   envVars, idle, oauthVars, lastSkip>>

\* getResult resolved: result.context_map is taken and saveContextMapLocally
\* runs to its first await
InitResultOk(k) ==
    /\ inits[k].pc = "result"
    /\ LET contextMap == ResultOf(inits[k].id)
       IN  /\ currentContextMap' = contextMap
           /\ WriteCache(contextMap, currentContextMapId, 2)
           /\ revs' = IF contextMap.rev = 0 THEN revs ELSE revs + 1
    /\ inits' = ReplaceAt(inits, k, [inits[k] EXCEPT !.pc = "saved"])
    /\ Passed
    /\ Silent
    /\ UNCHANGED <<watcherVars, currentContextMapId, syncs, state, hasToken,
                   autoSync, remote, idle, oauthVars, lastSkip>>

\* the same, but the process dies in saveContextMapLocally after `written`
\* of its writes
InitResultCrash(k, written) ==
    /\ inits[k].pc = "result"
    /\ LET contextMap == ResultOf(inits[k].id)
       IN  /\ WriteCache(contextMap, currentContextMapId, written)
           /\ Restart(IF written >= 1 THEN contextMap ELSE diskMap,
                      IF written >= 2 THEN Metadata(currentContextMapId, contextMap)
                                      ELSE diskMeta)
           /\ revs' = IF contextMap.rev = 0 THEN revs ELSE revs + 1
    /\ UNCHANGED <<hasToken, autoSync, remote, idle, oauthVars, lastSkip>>

\* getResult rejected
InitResultFails(k) ==
    /\ inits[k].pc = "result"
    /\ InitCatch(k, ErrNetwork)
    /\ NoProgress
    /\ Passed
    /\ UNCHANGED <<watcherVars, currentContextMapId, currentContextMap, syncs,
                   envVars, idle, oauthVars, lastSkip>>

\* saveContextMapLocally resolved: status bar, then startFileWatcher
InitSaved(k) ==
    /\ inits[k].pc = "saved"
    /\ state' = "synced"
    /\ startFileWatcher
    /\ inits' = RemoveAt(inits, k)
    /\ Silent
    /\ UNCHANGED <<currentContextMapId, currentContextMap, syncs, envVars,
                   idle, oauthVars, lastSkip>>

----------------------------------------------------------------------------
(* OAuthUriHandler *)

\* pendingLogin: PendingLogin | null = null
null == 0

NoPendingLogin ==
    /\ pendingLogin = null
    /\ timeouts = {}
    /\ logins = <<>>
    /\ uriCalls = <<>>

\* the promise of one startLogin call; calls counts the calls of its resolve
\* and reject, of which only the first one settles it
NoResult == [idToken |-> "", email |-> ""]
Promise == [settled |-> "pending", result |-> NoResult, reason |-> "", calls |-> 0]

Resolve(promise, result) ==
    IF promise.settled = "pending"
    THEN [settled |-> "resolved", result |-> result, reason |-> "",
          calls |-> promise.calls + 1]
    ELSE [promise EXCEPT !.calls = @ + 1]

Reject(promise, reason) ==
    IF promise.settled = "pending"
    THEN [settled |-> "rejected", result |-> NoResult, reason |-> reason,
          calls |-> promise.calls + 1]
    ELSE [promise EXCEPT !.calls = @ + 1]

ErrLoginCancelled ==
    "Login cancelled"
ErrLoginTimedOut ==
    "Login timed out. Please try again."
ErrInvalidCallback ==
    "Invalid callback - missing token or email"

\* a redirect of the browser: path and the query parameters token, email and
\* error; "" is a parameter that is missing or empty, which the tests of
\* handleUri do not tell apart
Uri(path, token, email, error) ==
    [path |-> path, token |-> token, email |-> email, error |-> error]

resolvePendingLogin(result) ==
    IF pendingLogin # null
    THEN /\ timeouts' = timeouts \ {pendingLogin}
         /\ logins' = [logins EXCEPT ![pendingLogin] = Resolve(@, result)]
         /\ pendingLogin' = null
    ELSE UNCHANGED <<pendingLogin, timeouts, logins>>

rejectPendingLogin(error) ==
    IF pendingLogin # null
    THEN /\ timeouts' = timeouts \ {pendingLogin}
         /\ logins' = [logins EXCEPT ![pendingLogin] = Reject(@, error)]
         /\ pendingLogin' = null
    ELSE UNCHANGED <<pendingLogin, timeouts, logins>>

\* a startLogin that leaves a pending login as it is
startLoginNoCancel ==
    /\ logins' = Append(logins, Promise)
    /\ timeouts' = timeouts \cup {Len(logins) + 1}
    /\ pendingLogin' = Len(logins) + 1
    /\ Passed
    /\ Silent
    /\ UNCHANGED <<watcherVars, handlerVars, state, envVars, idle, lastSkip,
                   uriCalls>>

\* startLogin: a pending login is cancelled, then the new promise is made,
\* its timeout armed and the browser opened
startLogin ==
    /\ logins' = Append(IF pendingLogin # null
                        THEN [logins EXCEPT ![pendingLogin] =
                                  Reject(@, ErrLoginCancelled)]
                        ELSE logins,
                        Promise)
    /\ timeouts' = (timeouts \ {pendingLogin}) \cup {Len(logins) + 1}
    /\ pendingLogin' = Len(logins) + 1
    /\ Passed
    /\ Silent
    /\ UNCHANGED <<watcherVars, handlerVars, state, envVars, idle, lastSkip,
                   uriCalls>>

\* the callback of the setTimeout of login n
LoginTimeout(n) ==
    /\ n \in timeouts
    /\ timeouts' = timeouts \ {n}
    /\ pendingLogin' = null
    /\ logins' = [logins EXCEPT ![n] = Reject(@, ErrLoginTimedOut)]
    /\ Passed
    /\ Silent
    /\ UNCHANGED <<watcherVars, handlerVars, state, envVars, idle, lastSkip,
                   uriCalls>>

\* handleUri up to its first await
handleUri(uri) ==
    /\ IF uri.path \notin {"/auth", "/callback"}
       THEN /\ Silent
            /\ UNCHANGED oauthVars
       ELSE IF uri.error # ""
            THEN /\ rejectPendingLogin(uri.error)
                 /\ notification' = Notification("login-failed", uri.error)
                 /\ NoProgress
                 /\ UNCHANGED uriCalls
            ELSE IF uri.token # "" /\ uri.email # ""
                 THEN /\ uriCalls' = Append(uriCalls, [pc |-> "idToken",
                                                       token |-> uri.token,
                                                       email |-> uri.email])
                      /\ Silent
                      /\ UNCHANGED <<pendingLogin, timeouts, logins>>
                 ELSE /\ rejectPendingLogin(ErrInvalidCallback)
                      /\ notification' =
                             Notification("login-failed", "Invalid callback")
                      /\ NoProgress
                      /\ UNCHANGED uriCalls
    /\ Passed
    /\ UNCHANGED <<watcherVars, handlerVars, state, envVars, idle, lastSkip>>

\* a secrets.store of handleUri call k resolved: the id token first, then the
\* email, after which the pending login is resolved
UriStored(k) ==
    /\ IF uriCalls[k].pc = "idToken"
       THEN /\ hasToken' = TRUE
            /\ uriCalls' = ReplaceAt(uriCalls, k, [uriCalls[k] EXCEPT !.pc = "email"])
            /\ Silent
            /\ UNCHANGED <<pendingLogin, timeouts, logins>>
       ELSE /\ resolvePendingLogin([idToken |-> uriCalls[k].token,
                                    email |-> uriCalls[k].email])
            /\ notification' = Notification("logged-in", uriCalls[k].email)
            /\ NoProgress
            /\ uriCalls' = RemoveAt(uriCalls, k)
            /\ UNCHANGED hasToken
    /\ Passed
    /\ UNCHANGED <<watcherVars, handlerVars, state, autoSync, diskMap, diskMeta,
                   remote, revs, idle, lastSkip>>

\* a secrets.store of handleUri call k rejected: the call ends there
UriStoreFails(k) ==
    /\ uriCalls' = RemoveAt(uriCalls, k)
    /\ Passed
    /\ Silent
    /\ UNCHANGED <<watcherVars, handlerVars, state, envVars, idle, lastSkip,
                   pendingLogin, timeouts, logins>>

----------------------------------------------------------------------------
(* The watcher alone: a window opened on a workspace whose .docudepth holds  *)
(* an artifact but no metadata, so that flushes start no sync.               *)

WatcherTexts == {Text(10), Text(MaxContentLength + 1)}

InitWatcher ==
    /\ watching = TRUE
    /\ pendingChanges = <<>>
    /\ debounceTimer = {}
    /\ currentContextMapId = NoId
    /\ currentContextMap = ContextMap(1, 1)
    /\ syncs = <<>>
    /\ inits = <<>>
    /\ state = "synced"
    /\ notification = NoNotification
    /\ progress = <<>>
    /\ hasToken = TRUE
    /\ autoSync = TRUE
    /\ diskMap = ContextMap(1, 1)
    /\ diskMeta = NoMeta
    /\ remote = <<"completed">>
    /\ revs = 1
    /\ NoPendingLogin
    /\ idle = 0
    /\ recent = NoRecent
    /\ cbArg = <<>>
    /\ lastSkip = "none"

NextWatcher ==
    \/ SaveEvent(WatcherPaths, WatcherTexts)
    \/ OutsideSaveEvent
    \/ CreateEvent(WatcherPaths, WatcherTexts)
    \/ UnreadableCreateEvent(WatcherPaths)
    \/ DeleteEvent(WatcherPaths)
    \/ Tick
    \/ TimerFire

SpecWatcher == InitWatcher /\ [][NextWatcher]_vars

\* the same with time passing and an elapsed timer running its callback
SpecWatcherFair == SpecWatcher /\ WF_vars(Tick) /\ WF_vars(TimerFire)

----------------------------------------------------------------------------
(* The watcher under saves of files whose paths contain the names of the    *)
(* ignore list as whole segments, as parts of longer segments and as        *)
(* suffixes.                                                                *)

NextIgnore ==
    \/ SaveEvent(SegmentPaths, {Text(10)})
    \/ Tick
    \/ TimerFire

SpecIgnore == InitWatcher /\ [][NextIgnore]_vars

----------------------------------------------------------------------------
(* The watcher under events on one file whose content is below, at and      *)
(* above the size limit.                                                    *)

SizePaths == {PathA}
SizeTexts == {Text(10), Text(MaxContentLength), Text(MaxContentLength + 1)}

NextSize ==
    \/ SaveEvent(SizePaths, SizeTexts)
    \/ CreateEvent(SizePaths, SizeTexts)
    \/ DeleteEvent(SizePaths)
    \/ Tick
    \/ TimerFire

SpecSize == InitWatcher /\ [][NextSize]_vars

----------------------------------------------------------------------------
(* The incremental path: a window whose first generation has completed.     *)

SyncTexts == {Text(10)}

InitSync ==
    /\ watching = TRUE
    /\ pendingChanges = <<>>
    /\ debounceTimer = {}
    /\ currentContextMapId = 1
    /\ currentContextMap = ContextMap(1, 1)
    /\ syncs = <<>>
    /\ inits = <<>>
    /\ state = "synced"
    /\ notification = NoNotification
    /\ progress = <<>>
    /\ hasToken = TRUE
    /\ autoSync = TRUE
    /\ diskMap = ContextMap(1, 1)
    /\ diskMeta = Metadata(1, ContextMap(1, 1))
    /\ remote = <<"completed">>
    /\ revs = 1
    /\ NoPendingLogin
    /\ idle = 0
    /\ recent = NoRecent
    /\ cbArg = <<>>
    /\ lastSkip = "none"

NextSync ==
    \/ SaveEvent(SyncPaths, SyncTexts)
    \/ Tick
    \/ (Len(syncs) < MaxSyncs /\ TimerFire)
    \/ \E k \in 1..Len(syncs) : SyncTokenResolved(k, MaxFilesPerBatch)
    \/ \E k \in 1..Len(syncs) : revs < MaxRevs /\ SyncUpdateOk(k)
    \/ \E k \in 1..Len(syncs) : SyncSaved(k)
    \/ \E k \in 1..Len(syncs), e \in SyncErrors : SyncUpdateFails(k, e)

SpecSync == InitSync /\ [][NextSync]_vars

----------------------------------------------------------------------------
(* The incremental path under every kind of rejected update request.        *)

\* the rejections of updateContextMap in the checked runs
Failures ==
    {
      \* the job is gone
      Failure(404, TRUE,
            <<"C","o","n","t","e","x","t"," ","m","a","p"," ","n","o","t"," ","f","o","u","n","d">>,
            <<>>,
            <<"{","\"","e","r","r","o","r","\"",":","\"","C","o","n","t","e","x","t"," ","m","a","p"," ","n","o","t"," ","f","o","u","n","d","\"","}">>),
      \* the gateway rejects the token
      Failure(401, TRUE,
            <<>>,
            <<"U","n","a","u","t","h","o","r","i","z","e","d">>,
            <<"{","\"","m","e","s","s","a","g","e","\"",":","\"","U","n","a","u","t","h","o","r","i","z","e","d","\"","}">>),
      \* no connection
      Failure(0, FALSE,
            <<>>,
            <<>>,
            <<>>),
      \* the server fails
      Failure(500, TRUE,
            <<>>,
            <<"I","n","t","e","r","n","a","l"," ","s","e","r","v","e","r"," ","e","r","r","o","r">>,
            <<"{","\"","m","e","s","s","a","g","e","\"",":","\"","I","n","t","e","r","n","a","l"," ","s","e","r","v","e","r"," ","e","r","r","o","r","\"","}">>),
      \* the gateway gives up waiting
      Failure(504, TRUE,
            <<>>,
            <<"E","n","d","p","o","i","n","t"," ","r","e","q","u","e","s","t"," ","t","i","m","e","d"," ","o","u","t">>,
            <<"{","\"","m","e","s","s","a","g","e","\"",":","\"","E","n","d","p","o","i","n","t"," ","r","e","q","u","e","s","t"," ","t","i","m","e","d"," ","o","u","t","\"","}">>),
      \* the job is gone, no body
      Failure(404, FALSE,
            <<>>,
            <<>>,
            <<>>),
      \* the server fails and says what it missed
      Failure(500, TRUE,
            <<"A","n","a","l","y","z","e","r"," ","m","o","d","u","l","e"," ","n","o","t"," ","f","o","u","n","d">>,
            <<>>,
            <<"{","\"","e","r","r","o","r","\"",":","\"","A","n","a","l","y","z","e","r"," ","m","o","d","u","l","e"," ","n","o","t"," ","f","o","u","n","d","\"","}">>)
    }

NextFailure ==
    \/ SaveEvent(EnginePaths, SyncTexts)
    \/ Tick
    \/ (Len(syncs) < MaxSyncs /\ TimerFire)
    \/ \E k \in 1..Len(syncs) : SyncTokenResolved(k, MaxFilesPerBatch)
    \/ \E k \in 1..Len(syncs) : revs < MaxRevs /\ SyncUpdateOk(k)
    \/ \E k \in 1..Len(syncs) : SyncSaved(k)
    \/ \E k \in 1..Len(syncs), f \in Failures : SyncUpdateFails(k, errorMessageOf(f))

SpecFailure == InitSync /\ [][NextFailure]_vars

----------------------------------------------------------------------------
(* flushChanges called at any time, in a window whose first generation has  *)
(* completed.                                                               *)

FlushPaths == {PathA, PathB}

NextFlush ==
    \/ SaveEvent(FlushPaths, SyncTexts)
    \/ DeleteEvent({PathA})
    \/ Tick
    \/ (Len(syncs) < MaxSyncs /\ TimerFire)
    \/ (Len(syncs) < MaxSyncs /\ FlushCall)
    \/ \E k \in 1..Len(syncs) : SyncTokenResolved(k, MaxFilesPerBatch)
    \/ \E k \in 1..Len(syncs) : revs < MaxRevs /\ SyncUpdateOk(k)
    \/ \E k \in 1..Len(syncs) : SyncSaved(k)
    \/ \E k \in 1..Len(syncs), e \in SyncErrors : SyncUpdateFails(k, e)

SpecFlush == InitSync /\ [][NextFlush]_vars

----------------------------------------------------------------------------
(* Saves and deletions of two files, one batch in flight at a time, with    *)
(* the cap of the setting below and at the number of files.                 *)

OrderPaths == {PathA, PathB}
OrderSettings == {1, MaxFilesPerBatch}

NextOrder ==
    \/ SaveEvent(OrderPaths, SyncTexts)
    \/ DeleteEvent(OrderPaths)
    \/ Tick
    \/ (Len(syncs) = 0 /\ TimerFire)
    \/ \E k \in 1..Len(syncs), setting \in OrderSettings : SyncTokenResolved(k, setting)
    \/ \E k \in 1..Len(syncs) : revs < MaxRevs /\ SyncUpdateOk(k)
    \/ \E k \in 1..Len(syncs) : SyncSaved(k)
    \/ \E k \in 1..Len(syncs), e \in SyncErrors : SyncUpdateFails(k, e)

SpecOrder == InitSync /\ [][NextOrder]_vars

----------------------------------------------------------------------------
(* One flushed batch of any size up to MaxPending, under every value of     *)
(* docudepth.maxFilesPerBatch: the window right after the flush.            *)

\* the n-th of the files saved together: f, ff, fff, ...
FileName(n) == [j \in 1..n |-> "f"]

\* the batch of a flush after the first n of these files were saved
Changes(n) == [i \in 1..n |-> FileChange(FileName(i), "modified", Text(10))]

\* values of the setting: 0 (unset), below, at and above the default
BatchSettings == {0, 1, MaxFilesPerBatch, DefaultMaxFiles + 1}

InitBatch ==
    /\ watching = TRUE
    /\ pendingChanges = <<>>
    /\ debounceTimer = {}
    /\ currentContextMapId = 1
    /\ currentContextMap = ContextMap(1, 1)
    /\ \E n \in 1..MaxPending : syncs = <<SyncFrame("token", Changes(n), NoId)>>
    /\ inits = <<>>
    /\ state = "synced"
    /\ notification = NoNotification
    /\ progress = <<>>
    /\ hasToken \in BOOLEAN
    /\ autoSync = TRUE
    /\ diskMap = ContextMap(1, 1)
    /\ diskMeta = Metadata(1, ContextMap(1, 1))
    /\ remote = <<"completed">>
    /\ revs = 1
    /\ NoPendingLogin
    /\ idle = DebounceTicks
    /\ recent = NoRecent
    /\ cbArg = <<>>
    /\ lastSkip = "none"

NextBatch ==
    \/ \E k \in 1..Len(syncs), setting \in BatchSettings : SyncTokenResolved(k, setting)
    \/ \E k \in 1..Len(syncs) : revs < MaxRevs /\ SyncUpdateOk(k)
    \/ \E k \in 1..Len(syncs) : SyncSaved(k)
    \/ \E k \in 1..Len(syncs), e \in SyncErrors : SyncUpdateFails(k, e)

SpecBatch == InitBatch /\ [][NextBatch]_vars

----------------------------------------------------------------------------
(* Generation alone, with every poll the loop can make: a fresh             *)
(* installation after login, no file events.                                *)

InitPolling ==
    /\ watching = FALSE
    /\ pendingChanges = <<>>
    /\ debounceTimer = {}
    /\ currentContextMapId = NoId
    /\ currentContextMap = NoMap
    /\ syncs = <<>>
    /\ inits = <<>>
    /\ state = "needs_init"
    /\ notification = NoNotification
    /\ progress = <<>>
    /\ hasToken = TRUE
    /\ autoSync = TRUE
    /\ diskMap = NoMap
    /\ diskMeta = NoMeta
    /\ remote = <<>>
    /\ revs = 0
    /\ NoPendingLogin
    /\ idle = 0
    /\ recent = NoRecent
    /\ cbArg = <<>>
    /\ lastSkip = "none"

NextPolling ==
    \/ Logout
    \/ \E ok \in BOOLEAN : Login(ok)
    \/ (Len(inits) < MaxInits /\ InitializeStart)
    \/ \E k \in 1..Len(inits) : Len(remote) < MaxJobs /\ InitAnalyzeOk(k)
    \/ \E k \in 1..Len(inits) : InitAnalyzeFails(k)
    \/ \E k \in 1..Len(inits), throws \in BOOLEAN : InitPoll(k, throws)
    \/ \E k \in 1..Len(inits) : revs < MaxRevs /\ InitResultOk(k)
    \/ \E k \in 1..Len(inits) : InitResultFails(k)
    \/ \E k \in 1..Len(inits) : InitSaved(k)
    \/ \E id \in 1..Len(remote) : JobCompletes(id)
    \/ \E id \in 1..Len(remote) : JobFails(id)

SpecPolling == InitPolling /\ [][NextPolling]_vars

----------------------------------------------------------------------------
(* A window opened on a .docudepth directory that has context-map.json but  *)
(* no readable metadata.json, by a user who is logged in.                   *)

InitDegraded ==
    LET r == checkExistingContextMap(NoMap, NoId, ContextMap(1, 1), NoMeta)
    IN  /\ watching = r.start
        /\ pendingChanges = <<>>
        /\ debounceTimer = {}
        /\ currentContextMapId = r.id
        /\ currentContextMap = r.map
        /\ syncs = <<>>
        /\ inits = <<>>
        /\ state = r.state
        /\ notification = NoNotification
        /\ progress = <<>>
        /\ hasToken = TRUE
        /\ autoSync = TRUE
        /\ diskMap = ContextMap(1, 1)
        /\ diskMeta = NoMeta
        /\ remote = <<"completed">>
        /\ revs = 1
        /\ NoPendingLogin
        /\ idle = 0
        /\ recent = NoRecent
        /\ cbArg = <<>>
        /\ lastSkip = "none"

NextDegraded ==
    \/ SaveEvent(EnginePaths, SyncTexts)
    \/ Tick
    \/ (Len(syncs) < MaxSyncs /\ TimerFire)
    \/ \E k \in 1..Len(syncs) : SyncTokenResolved(k, MaxFilesPerBatch)
    \/ \E k \in 1..Len(syncs) : revs < MaxRevs /\ SyncUpdateOk(k)
    \/ \E k \in 1..Len(syncs) : SyncSaved(k)
    \/ \E k \in 1..Len(syncs), e \in SyncErrors : SyncUpdateFails(k, e)
    \/ (Len(inits) < MaxInits /\ InitializeStart)
    \/ \E k \in 1..Len(inits) : Len(remote) < MaxJobs /\ InitAnalyzeOk(k)
    \/ \E k \in 1..Len(inits) : InitAnalyzeFails(k)
    \/ \E k \in 1..Len(inits), throws \in BOOLEAN :
           /\ (inits[k].pc = "poll" /\ ~throws /\ remote[inits[k].id] = "processing")
                  => inits[k].i < MaxProcessing
           /\ InitPoll(k, throws)
    \/ \E k \in 1..Len(inits) : revs < MaxRevs /\ InitResultOk(k)
    \/ \E k \in 1..Len(inits) : InitResultFails(k)
    \/ \E k \in 1..Len(inits) : InitSaved(k)
    \/ \E id \in 1..Len(remote) : JobCompletes(id)
    \/ \E id \in 1..Len(remote) : JobFails(id)

SpecDegraded == InitDegraded /\ [][NextDegraded]_vars

----------------------------------------------------------------------------
(* The whole engine, from the first activation after installation.          *)

EngineTexts == {Text(10)}

Init ==
    /\ watching = FALSE
    /\ pendingChanges = <<>>
    /\ debounceTimer = {}
    /\ currentContextMapId = NoId
    /\ currentContextMap = NoMap
    /\ syncs = <<>>
    /\ inits = <<>>
    /\ state = "not_authenticated"
    /\ notification = NoNotification
    /\ progress = <<>>
    /\ hasToken = FALSE
    /\ autoSync = TRUE
    /\ diskMap = NoMap
    /\ diskMeta = NoMeta
    /\ remote = <<>>
    /\ revs = 0
    /\ NoPendingLogin
    /\ idle = 0
    /\ recent = NoRecent
    /\ cbArg = <<>>
    /\ lastSkip = "none"

Next ==
    \/ SaveEvent(EnginePaths, EngineTexts)
    \/ Tick
    \/ (Len(syncs) < MaxSyncs /\ TimerFire)
    \/ \E ok \in BOOLEAN : Login(ok)
    \/ Logout
    \/ ToggleAutoSync
    \/ \E k \in 1..Len(syncs) : SyncTokenResolved(k, MaxFilesPerBatch)
    \/ \E k \in 1..Len(syncs) : revs < MaxRevs /\ SyncUpdateOk(k)
    \/ \E k \in 1..Len(syncs), w \in 0..2 : revs < MaxRevs /\ SyncUpdateCrash(k, w)
    \/ \E k \in 1..Len(syncs) : SyncSaved(k)
    \/ \E k \in 1..Len(syncs), e \in SyncErrors : SyncUpdateFails(k, e)
    \/ (Len(inits) < MaxInits /\ InitializeStart)
    \/ \E k \in 1..Len(inits) : Len(remote) < MaxJobs /\ InitAnalyzeOk(k)
    \/ \E k \in 1..Len(inits) : InitAnalyzeFails(k)
    \/ \E k \in 1..Len(inits), throws \in BOOLEAN :
           /\ (inits[k].pc = "poll" /\ ~throws /\ remote[inits[k].id] = "processing")
                  => inits[k].i < MaxProcessing
           /\ InitPoll(k, throws)
    \/ \E k \in 1..Len(inits) : revs < MaxRevs /\ InitResultOk(k)
    \/ \E k \in 1..Len(inits), w \in 0..2 : revs < MaxRevs /\ InitResultCrash(k, w)
    \/ \E k \in 1..Len(inits) : InitResultFails(k)
    \/ \E k \in 1..Len(inits) : InitSaved(k)
    \/ \E id \in 1..Len(remote) : JobCompletes(id)
    \/ \E id \in 1..Len(remote) : JobFails(id)

Spec == Init /\ [][Next]_vars

----------------------------------------------------------------------------
(* The login flow alone: browser logins started and redirects received on a *)
(* fresh installation.                                                      *)

MaxLogins == 3
MaxUriCalls == 2

Uris ==
    {Uri(path, token, email, error) :
        path \in {"/auth", "/callback", "/settings"}, token \in {"", "t"},
        email \in {"", "e"}, error \in {"", "access_denied"}}

NextOAuth ==
    \/ (Len(logins) < MaxLogins /\ startLogin)
    \/ \E uri \in Uris : Len(uriCalls) < MaxUriCalls /\ handleUri(uri)
    \/ \E k \in 1..Len(uriCalls) : UriStored(k)
    \/ \E k \in 1..Len(uriCalls) : UriStoreFails(k)
    \/ \E n \in 1..MaxLogins : LoginTimeout(n)

SpecOAuth == Init /\ [][NextOAuth]_vars

\* the same with every armed timeout running its callback in the end
SpecOAuthFair == SpecOAuth /\ \A n \in 1..MaxLogins : WF_vars(LoginTimeout(n))

----------------------------------------------------------------------------
(* Properties of the watcher *)

EntriesFor(a, p) == {i \in 1..Len(a) : a[i].path = p}

\* the last step was a flush: cbArg is its batch and recent tells the events
\* the batch was built from
JustFlushed == cbArg # <<>>

\* C7: in every reachable state the pending map holds at most one
\* PendingChange per relative path.
C7_OneEntryPerPath ==
    \A i, j \in 1..Len(pendingChanges) :
        pendingChanges[i].path = pendingChanges[j].path => i = j

\* a second event for a path has been recorded and the path has one entry
C7_Witness ==
    \E p \in Paths :
        /\ Len(recent[p]) = 2
        /\ Cardinality(EntriesFor(pendingChanges, p)) = 1

\* C8: a path whose last two recorded events before the flush were Modified
\* then Deleted has exactly one entry in the flushed batch, of kind
\* 'deleted' and without content.
C8_ModifiedThenDeleted ==
    JustFlushed =>
        \A p \in Paths :
            recent[p] = <<"modified", "deleted">> =>
                /\ Cardinality(EntriesFor(cbArg, p)) = 1
                /\ \A i \in EntriesFor(cbArg, p) :
                       cbArg[i].changeType = "deleted" /\ cbArg[i].content = undefined

C8_Witness ==
    /\ JustFlushed
    /\ \E p \in Paths :
           /\ recent[p] = <<"modified", "deleted">>
           /\ EntriesFor(cbArg, p) # {}

\* the directory names of the ignore list
ExcludedNames ==
    {ignoredPatterns[k] : k \in {n \in 1..Len(ignoredPatterns) :
                                     Head(ignoredPatterns[n]) # "*"}}

IsSeparator(c) == c = "/" \/ c = "\\"

\* the path segments of s
Segments(s) ==
    {SubSeq(s, i, j) : <<i, j>> \in
        {ij \in (1..Len(s)) \X (1..Len(s)) :
            /\ ij[1] <= ij[2]
            /\ \A k \in ij[1]..ij[2] : ~IsSeparator(s[k])
            /\ (ij[1] = 1 \/ IsSeparator(s[ij[1] - 1]))
            /\ (ij[2] = Len(s) \/ IsSeparator(s[ij[2] + 1]))}}

HasExcludedSegment(p) == Segments(p) \cap ExcludedNames # {}

ExcludedPaths == {p \in Paths : HasExcludedSegment(p)}

\* C9: no PendingChange, pending or flushed, is for a path that has an
\* excluded directory name as one of its segments.
C9_NoExcludedPath ==
    /\ PathsOf(pendingChanges) \cap ExcludedPaths = {}
    /\ PathsOf(cbArg) \cap ExcludedPaths = {}

\* an event on a path under an excluded directory was handled and dropped
C9_Witness ==
    /\ lastSkip = "ignored"
    /\ Cardinality(ExcludedPaths) >= 5

\* C10: the flush callback runs only when a full debounce delay has passed
\* since the last recorded event, and its batch holds every path recorded
\* since the previous flush, once.
C10_DebounceCollapse ==
    JustFlushed =>
        /\ idle = DebounceTicks
        /\ PathsOf(cbArg) = Touched
        /\ Len(cbArg) = Cardinality(Touched)

\* a burst of three events on two paths ended in one flush
C10_Witness ==
    /\ JustFlushed
    /\ Cardinality(Touched) = 2
    /\ \E p \in Touched : Len(recent[p]) = 2

----------------------------------------------------------------------------
(* Properties of the sync engine *)

\* the remote submissions that are outstanding: update requests, and
\* generation cycles between the analyze request and the result
Outstanding ==
    Cardinality({k \in 1..Len(syncs) : syncs[k].pc = "update"})
  + Cardinality({k \in 1..Len(inits) : inits[k].pc \in {"analyze", "poll", "result"}})

\* C1: when a flushed batch larger than maxFilesPerBatch is submitted, the
\* request carries exactly its first maxFilesPerBatch changes and every
\* path of the remainder is still pending afterwards.
C1_CapCarryOver ==
    [][\A k \in 1..Len(syncs) :
          (/\ SyncTokenResolved(k, MaxFilesPerBatch)
           /\ hasToken
           /\ Len(syncs[k].files) > MaxFilesPerBatch)
          => /\ syncs'[k].files = SubSeq(syncs[k].files, 1, MaxFilesPerBatch)
             /\ \A i \in (MaxFilesPerBatch + 1)..Len(syncs[k].files) :
                    MapHas(pendingChanges', syncs[k].files[i].path)]_vars

\* C2: at most one remote submission is outstanding.
C2_MutualExclusion == Outstanding <= 1

\* C3: when an update request fails with a transient error, every change of
\* its batch is pending again afterwards: as it was submitted or, for a
\* path recorded again meanwhile, as the newer entry.
C3_TransientRestore ==
    [][\A k \in 1..Len(syncs), e \in SyncErrors :
          (SyncUpdateFails(k, e) /\ ~IsPermanent(e))
          => \A i \in 1..Len(syncs[k].files) :
                 LET c == syncs[k].files[i]
                 IN  /\ MapHas(pendingChanges', c.path)
                     /\ \A j \in EntriesFor(pendingChanges', c.path) :
                            IF MapHas(pendingChanges, c.path)
                            THEN \A n \in EntriesFor(pendingChanges, c.path) :
                                     pendingChanges'[j] = pendingChanges[n]
                            ELSE pendingChanges'[j] = c]_vars

\* C4: a flush that fires while a submission is outstanding loses none of
\* its changes, and a flushed batch is submitted only when no submission is
\* outstanding.
C4_DeferredNotDiscarded ==
    [][/\ (TimerFire /\ Outstanding >= 1)
           => \A p \in PathsOf(pendingChanges) :
                  \/ MapHas(pendingChanges', p)
                  \/ \E k \in 1..Len(syncs') : MapHas(syncs'[k].files, p)
       /\ \A k \in 1..Len(syncs) :
              (SyncTokenResolved(k, MaxFilesPerBatch) /\ hasToken)
                  => Outstanding = 0]_vars

\* C5: a crash inside saveContextMapLocally never leaves, for the next
\* startup, a new artifact next to metadata that names another job.
C5_CrashAtomic ==
    [][\A w \in 0..2 :
          (\/ \E k \in 1..Len(syncs) : SyncUpdateCrash(k, w)
           \/ \E k \in 1..Len(inits) : InitResultCrash(k, w))
          => ~(/\ diskMap' # diskMap
               /\ diskMeta'.exists
               /\ diskMeta'.contextMapId # NoId
               /\ diskMeta'.contextMapId # diskMap'.job)]_vars

\* an artifact the remote returned for a job it had finished
Finished(contextMap) ==
    /\ contextMap.rev \in 1..revs
    /\ Completed(contextMap.job)

C11_EmptyFlush ==
    [][((TimerFire \/ FlushCall) /\ Len(pendingChanges) = 0)
       => /\ cbArg' = <<>>
          /\ UNCHANGED <<pendingChanges, handlerVars, state, diskMap, diskMeta,
                         remote, revs>>]_vars

\* a flush has just found nothing pending, in a session that syncs
C11_Witness ==
    /\ lastSkip = "empty"
    /\ pendingChanges = <<>>
    /\ currentContextMapId # NoId
    /\ autoSync

----------------------------------------------------------------------------
(* Properties of the poller *)

\* the frame's loop counter: the non-terminal answers it has had
PollsBefore(k) == inits[k].i

\* C12: a poll answered 'completed' after k non-terminal answers ends the
\* loop at once, with k + 1 polls made, and a call that has left the
\* loop polls no more.
C12_PollerSuccess ==
    [][\A k \in 1..Len(inits) :
          /\ (InitPoll(k, FALSE) /\ remote[inits[k].id] = "completed")
                 => /\ Len(inits') = Len(inits)
                    /\ inits'[k].pc = "result"
                    /\ inits'[k].i = PollsBefore(k)
          /\ inits[k].pc # "poll" => \A t \in BOOLEAN : ~InitPoll(k, t)]_vars

\* three 'processing' answers, then 'completed': the call waits for the result
C12_Witness ==
    \E k \in 1..Len(inits) :
        /\ inits[k].pc = "result"
        /\ inits[k].i = 3
        /\ remote[inits[k].id] = "completed"

\* the call k leaves the loop of pollForCompletion in this step
LeavesLoop(k) ==
    /\ inits[k].pc = "poll"
    /\ (Len(inits') < Len(inits) \/ inits'[k].pc # "poll")

\* C13: the loop never passes its bound, every poll ends it or advances its
\* counter, and a call that got no terminal status leaves the loop only at
\* poll number maxAttempts, with the 'timed out' failure.
C13_PollerTermination ==
    [][\A k \in 1..Len(inits) :
          /\ inits[k].pc = "poll" => inits[k].i < maxAttempts
          /\ \A t \in BOOLEAN :
                 (InitPoll(k, t) /\ ~LeavesLoop(k)) => inits'[k].i = inits[k].i + 1
          /\ (/\ LeavesLoop(k)
              /\ ~(/\ InitPoll(k, FALSE)
                   /\ remote[inits[k].id] \in {"completed", "failed"}))
                 => /\ InitPoll(k, FALSE)
                    /\ PollsBefore(k) + 1 = maxAttempts
                    /\ notification' = Notification("generation", ErrTimedOut)]_vars

----------------------------------------------------------------------------
(* Properties of the batches *)

\* a file event is handled in this step
EventStep ==
    \/ \E p \in Paths, c \in {Text(10)} : handleSave(TRUE, p, c)
    \/ \E p \in Paths : handleFileSystemChange(p, "deleted", FALSE, undefined)

\* C14: an event handled while batches are held by suspended sync calls
\* changes none of them and is recorded in the pending map; a batch that
\* has been sent stays as it was sent for as long as its call lives.
C14_BatchImmutable ==
    [][/\ EventStep => (syncs' = syncs /\ Len(pendingChanges') >= 1)
       /\ Len(syncs') = Len(syncs)
              => \A k \in 1..Len(syncs) :
                     syncs[k].pc \in {"update", "saved"}
                         => syncs'[k].files = syncs[k].files]_vars

\* while a batch holding 'modified' for a path is in flight, the path has
\* been deleted: the batch still says 'modified', the pending map 'deleted'
C14_Witness ==
    \E k \in 1..Len(syncs) :
        /\ syncs[k].pc = "update"
        /\ \E i \in 1..Len(syncs[k].files), j \in 1..Len(pendingChanges) :
               /\ syncs[k].files[i].path = pendingChanges[j].path
               /\ syncs[k].files[i].changeType = "modified"
               /\ pendingChanges[j].changeType = "deleted"

\* C15: the batch of an update request has at most maxFilesPerBatch changes,
\* 50 when the setting is unset, and is the head of the flushed batch.
C15_BatchCap ==
    [][\A k \in 1..Len(syncs), setting \in BatchSettings :
          (SyncTokenResolved(k, setting) /\ hasToken)
          => /\ Len(syncs'[k].files) <=
                    (IF setting = 0 THEN DefaultMaxFiles ELSE setting)
             /\ \A i \in 1..Len(syncs'[k].files) :
                    syncs'[k].files[i] = syncs[k].files[i]]_vars

\* a request is out with exactly the default number of changes
C15_Witness ==
    \E k \in 1..Len(syncs) :
        /\ syncs[k].pc = "update"
        /\ Len(syncs[k].files) = DefaultMaxFiles
        /\ DefaultMaxFiles < MaxPending

----------------------------------------------------------------------------
(* Properties of handleFileChanges *)

\* the update requests that are out
Requests == {k \in 1..Len(syncs) : syncs[k].pc = "update"}

\* the cache, the job id and the status indicator stay as they are
SessionKept ==
    UNCHANGED <<currentContextMap, currentContextMapId, diskMap, diskMeta, state>>

\* C16: a flush delivered while docudepth.autoSync is false starts no call
\* and no request; a call that finds no id token ends without a request;
\* both leave the cache, the job id and the status indicator unchanged.
C16_AutoSyncGating ==
    [][/\ (TimerFire /\ Len(pendingChanges) > 0 /\ ~autoSync)
           => (syncs' = syncs /\ SessionKept)
       /\ \A k \in 1..Len(syncs) :
              (SyncTokenResolved(k, MaxFilesPerBatch) /\ ~hasToken)
              => /\ syncs' = RemoveAt(syncs, k)
                 /\ \A j \in 1..Len(syncs') : syncs'[j].pc = "update"
                        => \E n \in Requests : syncs[n] = syncs'[j]
                 /\ SessionKept]_vars

\* a batch has just been flushed in a session with a job id and autoSync
\* off, and no call is suspended
C16_Witness ==
    /\ JustFlushed
    /\ ~autoSync
    /\ currentContextMapId # NoId
    /\ syncs = <<>>

----------------------------------------------------------------------------
(* Properties of the outcome of an incremental update.                      *)

ReportsPermanent(f) == f.status \in {401, 403, 404, 410}

\* C18: every rejected update request sets the status bar to 'error', and
\* an error message is shown exactly when the rejection is a permanent one;
\* rejections by timeout, 5xx or lost connection show none.
C18_FailureClassification ==
    [][\A k \in 1..Len(syncs), f \in Failures :
           SyncUpdateFails(k, errorMessageOf(f))
               => /\ state' = "error"
                  /\ (notification' # NoNotification) <=> ReportsPermanent(f)]_vars

\* the cache files, the map in memory and the job id stay as they are
CacheKept ==
    UNCHANGED <<diskMap, diskMeta, currentContextMap, currentContextMapId>>

\* C19: no step of a handleFileChanges call that ends in the catch block
\* (the flush that starts it, the token lookup, the rejected request,
\* permanent or not) changes context-map.json, metadata.json, the map in
\* memory or the job id.
C19_FailureKeepsCache ==
    [][/\ TimerFire => CacheKept
       /\ \A k \in 1..Len(syncs) :
              /\ SyncTokenResolved(k, MaxFilesPerBatch) => CacheKept
              /\ \A f \in Failures :
                     SyncUpdateFails(k, errorMessageOf(f)) => CacheKept]_vars

\* a permanent rejection has just been reported and the first generation's
\* map is still the one in memory and on disk
C19_Witness ==
    /\ state = "error"
    /\ notification.kind = "sync"
    /\ syncs = <<>>
    /\ currentContextMapId = 1
    /\ currentContextMap = ContextMap(1, 1)
    /\ diskMap = ContextMap(1, 1)
    /\ diskMeta = Metadata(1, ContextMap(1, 1))

----------------------------------------------------------------------------
(* Properties of a failed initialize.                                       *)

\* the call of initialize suspended as inits[k] ends in its catch block
InitFails(k) ==
    /\ \/ InitAnalyzeFails(k)
       \/ InitResultFails(k)
       \/ \E t \in BOOLEAN : InitPoll(k, t)
    /\ inits' = RemoveAt(inits, k)

\* C20: no step of an initialize call before the result arrives writes
\* context-map.json or metadata.json or changes the map in memory; a call
\* that fails (analyze, a poll or getResult rejected, job failed, loop
\* exhausted) sets the status bar to 'error' and shows a generation-failed
\* message; for a failed job the message is the job's error_message, for
\* an exhausted loop it is 'Generation timed out', which no other failure
\* shows.
C20_InitFailure ==
    [][/\ InitializeStart => UNCHANGED <<diskMap, diskMeta, currentContextMap>>
       /\ \A k \in 1..Len(inits) :
              /\ (InitAnalyzeOk(k) \/ \E t \in BOOLEAN : InitPoll(k, t))
                     => UNCHANGED <<diskMap, diskMeta, currentContextMap>>
              /\ InitFails(k)
                     => /\ UNCHANGED <<diskMap, diskMeta, currentContextMap>>
                        /\ state' = "error"
                        /\ notification'.kind = "generation"
              /\ (InitPoll(k, FALSE) /\ remote[inits[k].id] = "failed"
                     /\ error_message(inits[k].id) # <<>>)
                     => notification'.message = error_message(inits[k].id)
              /\ (InitPoll(k, FALSE) /\ remote[inits[k].id] = "processing"
                     /\ LoopEnds(inits[k].i))
                     => notification'.message = ErrTimedOut
              /\ (InitFails(k) /\ notification'.message = ErrTimedOut)
                     => /\ inits[k].pc = "poll"
                        /\ remote[inits[k].id] = "processing"
                        /\ LoopEnds(inits[k].i)]_vars

\* a second generation has just timed out and the first generation's map
\* is still the one in memory and on disk
C20_Witness ==
    /\ state = "error"
    /\ notification = Notification("generation", ErrTimedOut)
    /\ inits = <<>>
    /\ Len(remote) = 2
    /\ currentContextMap = ContextMap(1, 1)
    /\ diskMap = ContextMap(1, 1)
    /\ diskMeta = Metadata(1, ContextMap(1, 1))

----------------------------------------------------------------------------
(* Properties of the job id an update is sent for.                          *)

\* C21: every update request that is out names a job the remote has
\* completed; the id of a job that is still processing (being polled, or no
\* longer polled after the loop ran out) or that has failed is never the
\* target of an update.
C21_TargetCompleted ==
    \A k \in 1..Len(syncs) :
        syncs[k].pc = "update" => Completed(syncs[k].target)

\* C22: a poll whose getStatus call is rejected does not end the call of
\* initialize: unless it was the last poll the loop allows, the call is
\* still suspended in the loop afterwards, one attempt further, and nothing
\* is reported as failed.
C22_PollFailureTransient ==
    [][\A k \in 1..Len(inits) :
           (InitPoll(k, TRUE) /\ ~LoopEnds(inits[k].i))
               => /\ Len(inits') = Len(inits)
                  /\ inits'[k] = [inits[k] EXCEPT !.i = @ + 1]
                  /\ state' # "error"
                  /\ notification' = NoNotification]_vars

----------------------------------------------------------------------------
(* Properties of the progress reports of pollForCompletion.                 *)

\* a poll of some suspended initialize call is made in this step
PollStep == \E k \in 1..Len(inits), t \in BOOLEAN : InitPoll(k, t)

\* C23: a poll whose getStatus call returned reports the progress of that
\* status exactly once, whether the status is 'processing' again,
\* 'completed' or 'failed' and whether the loop goes on, returns or throws
\* in that poll; a rejected poll and every other step report nothing.
C23_ProgressPerPoll ==
    [][/\ \A k \in 1..Len(inits) :
              /\ InitPoll(k, FALSE)
                     => progress' = <<progress_percentage(remote[inits[k].id])>>
              /\ InitPoll(k, TRUE) => progress' = <<>>
       /\ ~PollStep => progress' = <<>>]_vars

\* the poll that found the job failed has made its report, and the failure
\* is shown
C23_Witness ==
    /\ Len(progress) = 1
    /\ state = "error"
    /\ notification = Notification("generation", ErrRemote)
    /\ inits = <<>>

----------------------------------------------------------------------------
(* Properties of a start without metadata.json.                             *)

\* C24: in a window started on context-map.json without a readable
\* metadata.json, as long as no initialize has completed since (none has
\* written metadata.json), the map of the file is the one in memory and no
\* update request is out.
C24_DegradedStartup ==
    ~diskMeta.exists
        => /\ currentContextMap = ContextMap(1, 1)
           /\ \A k \in 1..Len(syncs) : syncs[k].pc # "update"

----------------------------------------------------------------------------
(* Properties of teardown.                                                  *)

\* C25: while the user is logged out, no step other than a command of the
\* user changes the map or the job id in memory, writes context-map.json
\* or metadata.json, changes the status bar or starts a watcher: a response
\* that arrives after logout for a request sent before it has no effect.
C25_TeardownDiscards ==
    [][(~hasToken /\ ~hasToken' /\ ~InitializeStart /\ ~Login(FALSE))
           => UNCHANGED <<currentContextMap, currentContextMapId, diskMap,
                          diskMeta, state, watching>>]_vars

\* C26: a stopped watcher has no timer armed and nothing pending, and the
\* step that leads to a state with a stopped watcher calls no
\* onChangesCallback: with its subscriptions disposed nothing can be
\* recorded or flushed until a new watcher is started.
C26_StopStopsScheduler ==
    ~watching => /\ debounceTimer = {}
                 /\ pendingChanges = <<>>
                 /\ cbArg = <<>>

\* the watcher was stopped by logout one tick after an event, with the
\* timer armed and the change pending, and the engine has gone on since
C26_Witness ==
    /\ ~watching
    /\ ~hasToken
    /\ idle = 1
    /\ remote # <<>>

----------------------------------------------------------------------------
(* Properties of the sequence of cycles.                                    *)

\* C27: a flush hands the pending changes to the callback in the order of
\* the pending map, and the call of handleFileChanges it starts is started
\* only when no earlier call is still unresolved.
C27_OneBatchAtATime ==
    [][(TimerFire /\ pendingChanges # <<>>)
           => /\ cbArg' = pendingChanges
              /\ Len(syncs') > Len(syncs) => syncs = <<>>]_vars

----------------------------------------------------------------------------
(* Properties of the ignore list.                                           *)

\* the path ends in the suffix of a wildcard pattern
HasExcludedSuffix(p) ==
    \/ EndsWith(NormalizePath(p), <<".","l","o","g">>)
    \/ EndsWith(NormalizePath(p), <<".","l","o","c","k">>)

\* C28: a saved file is dropped as ignored exactly when one of its path
\* segments is a name of the ignore list or its path ends in '.log' or
\* '.lock'; every other saved file is recorded, also when a name of the list
\* is part of one of its segments.
C28_WholeSegments ==
    [][\A p \in SegmentPaths :
           handleSave(TRUE, p, Text(10))
               => /\ (lastSkip' = "ignored")
                      <=> (HasExcludedSegment(p) \/ HasExcludedSuffix(p))
                  /\ MapHas(pendingChanges', p)
                      <=> ~(HasExcludedSegment(p) \/ HasExcludedSuffix(p))]_vars

\* builder/a.ts, src/outline.ts, distribution/x.ts and a.log.ts are all
\* pending, and the last save, of a file under an excluded directory, was
\* dropped
C28_Witness ==
    /\ {PathBuilder, PathSrcOutline, PathDistribution, PathLogTs}
           \subseteq PathsOf(pendingChanges)
    /\ lastSkip = "ignored"

----------------------------------------------------------------------------
(* Properties of the size limit.                                            *)

\* the step records change c, as the one entry of its path, and arms the
\* timer
Records(c) ==
    /\ \E i \in 1..Len(pendingChanges') : pendingChanges'[i] = c
    /\ Cardinality(EntriesFor(pendingChanges', c.path)) = 1
    /\ debounceTimer' = {DebounceTicks}

\* C29: a save or creation whose content is longer than 102400 leaves the
\* pending map and the timer as they are and shows no error; content of
\* 102400 or less is recorded; a deletion is recorded without content.
C29_SizeCeiling ==
    [][\A p \in SizePaths :
           /\ \A c \in SizeTexts :
                  /\ handleSave(TRUE, p, c)
                         => IF ContentLength(c) > 102400
                            THEN /\ UNCHANGED <<pendingChanges, debounceTimer>>
                                 /\ notification' = NoNotification
                            ELSE Records(FileChange(p, "modified", c))
                  /\ handleFileSystemChange(p, "added", FALSE, c)
                         => IF ContentLength(c) > 102400
                            THEN /\ UNCHANGED <<pendingChanges, debounceTimer>>
                                 /\ notification' = NoNotification
                            ELSE Records(FileChange(p, "added", c))
           /\ handleFileSystemChange(p, "deleted", FALSE, undefined)
                  => Records(FileChange(p, "deleted", undefined))]_vars

\* content of exactly 102400 was recorded for the file, and a later event
\* for the same file with longer content was dropped and left the entry
C29_Witness ==
    /\ lastSkip = "oversize"
    /\ \E kind \in {"modified", "added"} :
           pendingChanges = <<FileChange(PathA, kind, Text(MaxContentLength))>>

----------------------------------------------------------------------------
(* Properties of a failed read.                                             *)

\* C30: a creation event whose file cannot be read leaves the pending map
\* and the debounce timer as they are, calls no callback and shows no
\* error.
C30_UnreadableSkipped ==
    [][\A p \in WatcherPaths :
           handleFileSystemChange(p, "added", TRUE, undefined)
               => /\ UNCHANGED <<pendingChanges, debounceTimer>>
                  /\ cbArg' = <<>>
                  /\ notification' = NoNotification
                  /\ lastSkip' \in {"unreadable", "ignored"}]_vars

\* a creation event was dropped for an unreadable file while a.ts was
\* pending, and the timer armed before it is still counting down
C30_Witness ==
    /\ lastSkip = "unreadable"
    /\ MapHas(pendingChanges, PathA)
    /\ debounceTimer = {1}
    /\ idle = 1

----------------------------------------------------------------------------
(* Properties of the status indicator.                                      *)

\* C31: while the status bar shows 'synced' no update request is out, no
\* save of a cycle is unfinished and no initialize call is suspended
\* (waiting for the analyze response, in the polling loop, or for the
\* result).
C31_SyncedMeansIdle ==
    state = "synced"
        => /\ \A k \in 1..Len(syncs) : syncs[k].pc \notin {"update", "saved"}
           /\ \A k \in 1..Len(inits) : inits[k].pc = "saved"

----------------------------------------------------------------------------
(* Liveness of the flush.                                                   *)

\* an event of the watcher runs is handled in this step
WatcherEvent ==
    \/ SaveEvent(WatcherPaths, WatcherTexts)
    \/ OutsideSaveEvent
    \/ CreateEvent(WatcherPaths, WatcherTexts)
    \/ UnreadableCreateEvent(WatcherPaths)
    \/ DeleteEvent(WatcherPaths)

\* the event of this step is recorded / is filtered out
RecordedEvent == WatcherEvent /\ lastSkip' = "none"
FilteredEvent == WatcherEvent /\ lastSkip' # "none"

\* C32: never more than one timer is armed; an event that is filtered out
\* leaves the timer and the pending map as they are; and unless events keep
\* being recorded for ever, whatever is pending is eventually handed to the
\* callback, however many filtered events arrive meanwhile.
C32_FlushLiveness ==
    /\ [](Cardinality(debounceTimer) <= 1)
    /\ [][FilteredEvent => UNCHANGED <<debounceTimer, pendingChanges>>]_vars
    /\ []<><<RecordedEvent>>_vars \/ ((pendingChanges # <<>>) ~> JustFlushed)

\* a batch has just been flushed one full delay after the last recorded
\* event, although an event on an ignored path arrived during the countdown
C32_Witness ==
    /\ JustFlushed
    /\ lastSkip = "ignored"
    /\ idle = DebounceTicks

----------------------------------------------------------------------------
(* Order of the batch.                                                      *)

PathSeq(m) == [i \in 1..Len(m) |-> m[i].path]

\* C33: an event recorded for a path that has a pending entry replaces the
\* entry where it stands, an event for a new path goes last; the flush hands
\* over the pending entries in that order; and the request takes the head of
\* the flushed batch: the paths first touched since the last flush.
C33_FirstTouchOrder ==
    [][/\ \A p \in OrderPaths, kind \in {"modified", "deleted"},
             content \in SyncTexts \cup {undefined} :
            RecordChange(FileChange(p, kind, content))
            => IF MapHas(pendingChanges, p)
               THEN /\ PathSeq(pendingChanges') = PathSeq(pendingChanges)
                    /\ \A i \in 1..Len(pendingChanges) :
                           pendingChanges'[i] =
                               IF pendingChanges[i].path = p
                               THEN FileChange(p, kind, content)
                               ELSE pendingChanges[i]
               ELSE pendingChanges' =
                        Append(pendingChanges, FileChange(p, kind, content))
       /\ (TimerFire /\ pendingChanges # <<>>)
            => /\ cbArg' = pendingChanges
               /\ Len(syncs') > Len(syncs)
                      => syncs'[Len(syncs')].files = pendingChanges
       /\ \A k \in 1..Len(syncs), setting \in OrderSettings :
            (SyncTokenResolved(k, setting) /\ hasToken)
            => PathSeq(syncs'[k].files) =
                   SubSeq(PathSeq(syncs[k].files), 1,
                          IF setting < Len(syncs[k].files)
                          THEN setting ELSE Len(syncs[k].files))]_vars

\* a batch of more paths than the cap has just been flushed; its first path
\* was recorded twice, as modified and then as deleted, and stands first
C33_Witness ==
    /\ JustFlushed
    /\ \E setting \in OrderSettings : Len(cbArg) > setting
    /\ recent[cbArg[1].path] = <<"modified", "deleted">>
    /\ cbArg[1].changeType = "deleted"
    /\ \A i \in 2..Len(cbArg) : recent[cbArg[i].path] = <<"modified">>


----------------------------------------------------------------------------
(* One watcher.                                                             *)

\* the watcher of this state has just been created: subscribed, nothing
\* pending, no timer
Fresh ==
    /\ watching
    /\ pendingChanges = <<>>
    /\ debounceTimer = {}

\* C34: a step that starts a watcher (the end of initialize, login on a
\* workspace with an artifact) leaves exactly the new watcher: nothing
\* pending and no timer of a previous one remain. A file event then adds at
\* most one entry, starts no sync and leaves at most one timer, and the
\* timer's flush empties the map and starts at most one sync.
C34_SingleWatcher ==
    [][/\ \A k \in 1..Len(inits) : InitSaved(k) => Fresh'
       /\ (Login(TRUE) /\ diskMap # NoMap) => Fresh'
       /\ \A p \in EnginePaths, c \in EngineTexts :
              handleSave(TRUE, p, c)
              => /\ Len(pendingChanges') <= Len(pendingChanges) + 1
                 /\ Cardinality(EntriesFor(pendingChanges', p)) <= 1
                 /\ Cardinality(debounceTimer') <= 1
                 /\ syncs' = syncs
       /\ TimerFire
              => /\ pendingChanges' = <<>>
                 /\ debounceTimer' = {}
                 /\ Len(syncs') <= Len(syncs) + 1
                 /\ cbArg' \in {<<>>, pendingChanges}]_vars

\* initialize has run a second time and its end has replaced a watcher that
\* had recorded an event one tick before
C34_Witness ==
    /\ Fresh
    /\ hasToken
    /\ idle = 1
    /\ inits = <<>>
    /\ Len(remote) = MaxJobs
    /\ diskMeta.exists /\ diskMeta.contextMapId = MaxJobs


----------------------------------------------------------------------------
(* Properties of the login flow.                                            *)

Pending(n) == n <= Len(logins) /\ logins[n].settled = "pending"
Settled(n) == n <= Len(logins) /\ logins[n].settled # "pending"

\* C35: the pending login is the one promise that is not settled, and its
\* timeout is the one timeout armed; a settled promise has had exactly one
\* call of resolve or reject, a resolved one with the token and email of a
\* callback; startLogin rejects a pending login with 'Login cancelled' and
\* disarms its timeout; any other settlement leaves pendingLogin null and no
\* timeout armed; and every login is settled in the end.
C35_OnePendingLogin ==
    /\ [](/\ timeouts = (IF pendingLogin = null THEN {} ELSE {pendingLogin})
          /\ \A n \in 1..Len(logins) :
                 /\ Pending(n) <=> (n = pendingLogin)
                 /\ logins[n].calls = (IF Pending(n) THEN 0 ELSE 1)
                 /\ logins[n].settled = "resolved"
                        => logins[n].result.idToken # "" /\ logins[n].result.email # "")
    /\ [][/\ (startLogin /\ pendingLogin # null)
             => /\ logins'[pendingLogin].settled = "rejected"
                /\ logins'[pendingLogin].reason = ErrLoginCancelled
                /\ pendingLogin \notin timeouts'
          /\ \A n \in 1..Len(logins) :
                 (Pending(n) /\ Settled(n)' /\ ~startLogin)
                 => /\ pendingLogin' = null
                    /\ timeouts' = {}
                    /\ \/ logins'[n].settled = "resolved"
                       \/ logins'[n].reason \in
                              {ErrLoginTimedOut, ErrInvalidCallback, "access_denied"}]_vars
    /\ \A n \in 1..MaxLogins : Pending(n) ~> Settled(n)

\* the first login was cancelled by the second, the second resolved by a
\* callback and the third ended by its timeout
C35_Witness ==
    /\ Len(logins) = 3
    /\ logins[1].reason = ErrLoginCancelled
    /\ logins[2].settled = "resolved"
    /\ logins[3].reason = ErrLoginTimedOut
    /\ pendingLogin = null
    /\ timeouts = {}

====
